---- MODULE Spec2Model ----
(***************************************************************************)
(* UcT (src/UcT.py): the verification engine UctVerifier (verify_urls,     *)
(* _verify_url, _handle_error) and the part of the application UctApp that *)
(* drives it and consumes its results (check_input_urls, start_validation, *)
(* stop_validation, verify_urls_only, process_files, verify_urls_async,    *)
(* process_results_batch, finish_validation), and the extraction engine    *)
(* UctEngine (normalize_url with its lru_cache, _extract_text_urls,        *)
(* _normalize_urls, extract_from_text).                                    *)
(*                                                                         *)
(* Two threads act on the application object: the GUI thread (button       *)
(* handlers) and the worker thread started by start_validation, which runs *)
(* the asyncio event loop.  The model follows one worker thread statement  *)
(* by statement; of the worker of an earlier run that is still alive when  *)
(* a new run starts it keeps only that it will call finish_validation.     *)
(* A string is a sequence of tokens (see Strings); the specifications of   *)
(* the engine alone, which never look inside a URL,                        *)
(* write the i-th distinct URL as the one-token string <<i>>, and <<>> is  *)
(* the empty string.  The status labels of the source are written in       *)
(* English:                                                                *)
(*   "unknown" 未知, "invalid" 无效, "informational" 信息响应,             *)
(*   "active" 活跃, "redirect" 重定向, "client_error" 客户端错误,          *)
(*   "server_error" 服务器错误, "timeout" 超时, "cannot_connect" 无法连接, *)
(*   "dns_error" 域名错误, "ssl_error" SSL错误, "too_many" 请求过多,       *)
(*   "network_error" 网络错误.                                             *)
(***************************************************************************)
EXTENDS Naturals, Integers, Sequences, FiniteSets, TLC

VARIABLES
    running,    \* UctApp.running
    urls,       \* UctApp.urls, the list handed to verify_urls
    stored,     \* UctApp.results, read by generate_report and export_results
    tree,       \* the rows of UctApp.results_tree, in insertion order
    stats,      \* UctApp.stats
    wpc,        \* where the worker thread is
    results,    \* verify_urls: its local list `results`
    bi,         \* verify_urls: the loop variable i (0-based batch index)
    task,       \* verify_urls: the coroutine _verify(url_info) of each candidate
    permits,    \* verify_urls: the value of the asyncio.Semaphore
    vresults,   \* verify_urls_async: its local `results`
    di,         \* verify_urls_async: the loop variable i
    stopped_at, \* history: where the worker was when stop_validation last took
                \* effect (no action reads it)
    input_text, \* the string at hand: the argument of normalize_url, or the
                \* content of the input box UctApp.url_input
    ret,        \* the values normalize_url has returned for `input_text`
    cache,      \* the lru_cache of normalize_url
    file_paths, \* UctApp.file_paths, each file written as its content
    futures,    \* process_files: the futures as_completed has not yet yielded
    start_btn,  \* the state of UctApp.start_btn
    stale       \* the worker threads of earlier runs that are still alive

vars == <<running, urls, stored, tree, stats, wpc, results, bi, task, permits,
          vresults, di, stopped_at, input_text, ret, cache, file_paths, futures,
          start_btn, stale>>

(***************************************************************************)
(* Sizes.  The source's UctConfig has CHUNK_SIZE = 50, MAX_ASYNC_TASKS =   *)
(* 256 and a literal cap of 100 on the semaphore; the model keeps the      *)
(* loops and the order CHUNK_SIZE < cap < MAX_ASYNC_TASKS and runs them on *)
(* small numbers.                                                          *)
(***************************************************************************)
MaxUrls == 5
CHUNK_SIZE == 2
MAX_ASYNC_TASKS == 8
SEMAPHORE_CAP == 4

\* The longest string of the enumerated inputs, in tokens.
MaxLen == 4

\* UctConfig.CACHE_SIZE = 1024, run on a small number.
CACHE_SIZE == 3

\* The calls of normalize_url a behaviour of the cache follows.
MaxCalls == 6

\* The worker threads of earlier runs a behaviour follows at a time.
MaxStale == 2

Min(a, b) == IF a < b THEN a ELSE b

\* asyncio.Semaphore(min(UctConfig.MAX_ASYNC_TASKS, 100))
ConcurrencyLimit == Min(MAX_ASYNC_TASKS, SEMAPHORE_CAP)

(***************************************************************************)
(* Candidates and results                                                  *)
(***************************************************************************)
Candidate(orig, norm, src) ==
    [original_url |-> orig, normalized_url |-> norm, source_file |-> src]

\* extract_from_text: original_url and normalized_url are both the normalized
\* URL, never empty, and the source is the manual-entry label.
ManualCandidates(n) == [i \in 1..n |-> Candidate(<<i>>, <<i>>, "manual")]

\* No result yet (the task has not run _verify_url).
NoResult ==
    [original_url |-> <<>>, normalized_url |-> <<>>, source_file |-> "",
     status_code |-> 0, status |-> "none", error_message |-> ""]

InitialResult_FromNormalized(url_info) ==
    [original_url |-> url_info.normalized_url,
     normalized_url |-> url_info.normalized_url,
     source_file |-> url_info.source_file,
     status_code |-> 0, status |-> "unknown", error_message |-> ""]

\* _verify_url: result = {**url_info, "status_code": 0, "status": "未知", ...}
InitialResult(url_info) ==
    [original_url |-> url_info.original_url,
     normalized_url |-> url_info.normalized_url,
     source_file |-> url_info.source_file,
     status_code |-> 0, status |-> "unknown", error_message |-> ""]

(***************************************************************************)
(* Strings.  A string is a sequence of tokens, each a run of characters    *)
(* that every operation of the source treats as a whole: "http://" and     *)
(* "https://" where a string or a regular-expression match begins with     *)
(* them, one token for each character the code looks for ("/", "?", "#",   *)
(* ".", ":", ";", "[", the space, the quote), and words of other           *)
(* characters.  Inside a URL the characters of a scheme are the tokens     *)
(* "http", ":", "/", "/".                                                  *)
(***************************************************************************)
Schemes == {"http://", "https://"}

\* str.strip() with no argument
Whitespace == {" "}

\* .rstrip('.,:;!?')
TrailingPunctuation == {".", ",", ":", ";", "!", "?"}

\* Python's None
None == <<"None">>

Range(s) == {s[i] : i \in DOMAIN s}

\* len() of a token
Chars(tok) ==
    CASE tok = "http://" -> 7
      [] tok = "https://" -> 8
      [] tok \in {"Example", "example"} -> 7
      [] tok \in {"https", "Visit"} -> 5
      [] tok \in {"http", "Page", "page"} -> 4
      [] tok \in {"com", "not", "url", "now", "x=1", "y=1"} -> 3
      [] tok = "e+U0301" -> 2
      [] OTHER -> 1

RECURSIVE CharLen(_)
CharLen(s) == IF s = <<>> THEN 0 ELSE Chars(Head(s)) + CharLen(Tail(s))

\* str.lower() of a token
TokLower(tok) ==
    CASE tok = "Example" -> "example"
      [] tok = "Page" -> "page"
      [] tok = "Visit" -> "visit"
      [] OTHER -> tok

LowerStr_Identity(s) == s

\* str.lower()
LowerStr(s) == [i \in DOMAIN s |-> TokLower(s[i])]

\* unicodedata.normalize('NFC', url): "e+U0301" is the letter e followed by
\* the combining acute accent, "U00E9" the composed letter.
NFC(s) == [i \in DOMAIN s |-> IF s[i] = "e+U0301" THEN "U00E9" ELSE s[i]]

RECURSIVE LStrip(_, _)
LStrip(s, chars) ==
    IF s # <<>> /\ Head(s) \in chars THEN LStrip(Tail(s), chars) ELSE s

RECURSIVE RStrip(_, _)
RStrip(s, chars) ==
    IF s # <<>> /\ s[Len(s)] \in chars
    THEN RStrip(SubSeq(s, 1, Len(s) - 1), chars)
    ELSE s

Strip(s) == RStrip(LStrip(s, Whitespace), Whitespace)

\* str.startswith(prefix)
StartsWith(s, prefix) ==
    Len(s) >= Len(prefix) /\ SubSeq(s, 1, Len(prefix)) = prefix

\* url.startswith(('http://', 'https://'))
HasScheme(s) == s # <<>> /\ Head(s) \in Schemes

\* '://' in url
HasSchemeSeparator(s) ==
    \/ \E i \in DOMAIN s : s[i] \in Schemes
    \/ \E i \in 1..(Len(s) - 2) : s[i] = ":" /\ s[i + 1] = "/" /\ s[i + 2] = "/"

\* The longest prefix of s that holds no token of stops, and the rest of s.
RECURSIVE Before(_, _)
Before(s, stops) ==
    IF s = <<>> \/ Head(s) \in stops THEN <<>>
    ELSE <<Head(s)>> \o Before(Tail(s), stops)

From(s, stops) == SubSeq(s, Len(Before(s, stops)) + 1, Len(s))

\* urllib.parse._splitparams: the path up to the first ";" of its last segment
SplitParams(path) ==
    LET slashes == {i \in DOMAIN path : path[i] = "/"}
        last == IF slashes = {} THEN 0
                ELSE CHOOSE i \in slashes : \A j \in slashes : j <= i
        semis == {i \in DOMAIN path : i > last /\ path[i] = ";"}
    IN  IF semis = {} THEN path
        ELSE SubSeq(path, 1, (CHOOSE i \in semis : \A j \in semis : i <= j) - 1)

\* urllib.parse.urlparse(url) of a url that starts with a scheme: the netloc
\* ends at the first of "/", "?", "#"; the fragment, the query and the
\* parameters are split off the rest; a netloc with "[" and no "]" raises
\* ValueError.
UrlParse(url) ==
    LET rest == Tail(url)
        netloc == Before(rest, {"/", "?", "#"})
        after == From(rest, {"/", "?", "#"})
    IN  [raises |-> "[" \in Range(netloc) /\ "]" \notin Range(netloc),
         scheme |-> Head(url),
         netloc |-> netloc,
         path |-> SplitParams(Before(Before(after, {"#"}), {"?"}))]

(***************************************************************************)
(* UctEngine.normalize_url, without its cache                              *)
(***************************************************************************)
\* The url given to urlparse, or None when the string is rejected before.
WithScheme(x) ==
    LET url == NFC(RStrip(Strip(x), TrailingPunctuation)) IN
    IF HasScheme(url) THEN url
    ELSE IF StartsWith(url, <<"/", "/">>)
         THEN <<"https://">> \o SubSeq(url, 3, Len(url))
    ELSE IF ~HasSchemeSeparator(url) /\ "." \in Range(url)
         THEN <<"https://">> \o url
    ELSE None

CleanUrl_Raises(url) ==
    LET parsed == UrlParse(url) IN
    IF parsed.raises THEN <<"ValueError">>
    ELSE IF parsed.netloc = <<>> THEN None
    ELSE <<parsed.scheme>> \o LowerStr(parsed.netloc) \o parsed.path

\* parsed = urlparse(url); `if not parsed.netloc: return None`; the netloc is
\* lower-cased and f"{parsed.scheme}://{netloc}{parsed.path}" returned; the
\* bare except returns None.
CleanUrl(url) ==
    LET parsed == UrlParse(url) IN
    IF parsed.raises THEN None
    ELSE IF parsed.netloc = <<>> THEN None
    ELSE <<parsed.scheme>> \o LowerStr(parsed.netloc) \o parsed.path

\* normalize_url(x), without the cache; `url` is bound to its value once.
NormalizeUrl(x) ==
    CHOOSE norm \in {IF url = None THEN None ELSE CleanUrl(url) :
                         url \in {WithScheme(x)}} : TRUE

\* `if norm_url:`
Truthy(value) == value # None /\ value # <<>>

(***************************************************************************)
(* functools.lru_cache(maxsize=CACHE_SIZE) around normalize_url: the       *)
(* entries, most recently used first, and the counters of cache_info().    *)
(***************************************************************************)
NoCache == [entries |-> <<>>, hits |-> 0, misses |-> 0]

Cached(x) == \E i \in DOMAIN cache.entries : cache.entries[i].key = x

EntryOf(x) == CHOOSE i \in DOMAIN cache.entries : cache.entries[i].key = x

Without(s, i) == SubSeq(s, 1, i - 1) \o SubSeq(s, i + 1, Len(s))

CachedValue_Newest(x) == cache.entries[1].value

\* The value the cache holds for x.
CachedValue(x) == cache.entries[EntryOf(x)].value

\* normalize_url(x), x in the cache: the entry becomes the most recently used.
CacheHit(x) ==
    /\ cache.hits + cache.misses < MaxCalls
    /\ Cached(x)
    /\ input_text' = x
    /\ ret' = <<CachedValue(x)>>
    /\ cache' = [cache EXCEPT
                    !.entries = <<cache.entries[EntryOf(x)]>> \o Without(@, EntryOf(x)),
                    !.hits = @ + 1]
    /\ UNCHANGED <<file_paths, futures, stale, start_btn, running, urls, stored, tree, stats, wpc,
                   results, bi, task, permits,
                   vresults, di, stopped_at>>

\* normalize_url(x), x not in the cache: the function runs, and its value takes
\* the place of the least recently used entry when the cache is full.
CacheMiss(x) ==
    /\ cache.hits + cache.misses < MaxCalls
    /\ ~Cached(x)
    /\ input_text' = x
    /\ ret' = <<NormalizeUrl(x)>>
    /\ cache' = [cache EXCEPT
                    !.entries = <<[key |-> x, value |-> NormalizeUrl(x)]>> \o
                                (IF Len(@) = CACHE_SIZE THEN SubSeq(@, 1, Len(@) - 1) ELSE @),
                    !.misses = @ + 1]
    /\ UNCHANGED <<file_paths, futures, stale, start_btn, running, urls, stored, tree, stats, wpc,
                   results, bi, task, permits,
                   vresults, di, stopped_at>>

(***************************************************************************)
(* Calls of normalize_url on one string                                    *)
(***************************************************************************)
\* normalize_url(input_text)
NormalizeCall ==
    /\ ret = <<>>
    /\ ret' = <<NormalizeUrl(input_text)>>
    /\ UNCHANGED <<file_paths, futures, stale, start_btn, input_text, cache, running, urls, stored, tree, stats, wpc, results, bi, task,
                   permits, vresults, di, stopped_at>>

\* normalize_url(normalize_url(input_text)), when the first call returned a value
NormalizeAgain ==
    /\ Len(ret) = 1
    /\ ret[1] # None
    /\ ret' = Append(ret, NormalizeUrl(ret[1]))
    /\ UNCHANGED <<file_paths, futures, stale, start_btn, input_text, cache, running, urls, stored, tree, stats, wpc, results, bi, task,
                   permits, vresults, di, stopped_at>>

(***************************************************************************)
(* UctEngine: extraction from text                                         *)
(***************************************************************************)
SchemeName(tok) == IF tok = "http://" THEN "http" ELSE "https"

\* The string of a match: a scheme after its first token is written out.
RECURSIVE WrittenOut(_)
WrittenOut(s) ==
    IF s = <<>> THEN <<>>
    ELSE (IF Head(s) \in Schemes THEN <<SchemeName(Head(s)), ":", "/", "/">>
          ELSE <<Head(s)>>) \o WrittenOut(Tail(s))

\* re.findall of `https?://` followed by at least `least` characters none of
\* which is in stops, as many as there are: the matches, left to right.  (A
\* text holds no "<" and no ">".)
RECURSIVE FindAll(_, _, _)
FindAll(s, stops, least) ==
    IF s = <<>> THEN <<>>
    ELSE IF Head(s) \in Schemes /\ CharLen(Before(Tail(s), stops)) >= least
         THEN LET run == Before(Tail(s), stops) IN
              <<<<Head(s)>> \o WrittenOut(run)>>
                  \o FindAll(SubSeq(s, Len(run) + 2, Len(s)), stops, least)
    ELSE FindAll(Tail(s), stops, least)

\* UctConfig.URL_REGEX = r'(https?://[^<\s\'"]{8,})'
UrlRegexMatches(s) == FindAll(s, Whitespace \cup {"<", "'", "\""}, 8)

\* r'https?://[^<\s]{8,}[^\s>]'
AltRegexMatches(s) == FindAll(s, Whitespace \cup {"<"}, 9)

\* The orders in which a Python set can be iterated.
Orderings(S) ==
    {o \in [1..Cardinality(S) -> S] : \A i, j \in 1..Cardinality(S) : o[i] = o[j] => i = j}

NormalizeUrls_NoFilter(found, file_path) ==
    [i \in DOMAIN found |-> Candidate(found[i], NormalizeUrl(found[i]), file_path)]

\* _normalize_urls(urls, file_path), the set `urls` iterated in the order found
NormalizeUrls(found, file_path) ==
    LET kept == SelectSeq(found, LAMBDA u : Truthy(NormalizeUrl(u))) IN
    [i \in DOMAIN kept |-> Candidate(kept[i], NormalizeUrl(kept[i]), file_path)]

\* _extract_text_urls(content, file_path): the lists it can return
ExtractTextUrls(content, file_path) ==
    {NormalizeUrls(o, file_path) :
        o \in Orderings(Range(UrlRegexMatches(content)) \cup Range(AltRegexMatches(content)))}

\* extract_from_text(input): the lists it can return
ExtractFromText(input) ==
    LET found == {NormalizeUrl(m) : m \in Range(UrlRegexMatches(input))} IN
    {[i \in DOMAIN o |-> Candidate(o[i], o[i], "manual")] :
        o \in Orderings({u \in found : Truthy(u)})}

(***************************************************************************)
(* Classification of an HTTP status (the if-chain of _verify_url)          *)
(***************************************************************************)
HttpStatus == 100..599

StatusLabel_LessEq(status) ==
    IF status <= 200 THEN "informational"
    ELSE IF status <= 300 THEN "active"
    ELSE IF status <= 400 THEN "redirect"
    ELSE IF status <= 500 THEN "client_error"
    ELSE "server_error"

StatusLabel(status) ==
    IF status < 200 THEN "informational"
    ELSE IF status < 300 THEN "active"
    ELSE IF status < 400 THEN "redirect"
    ELSE IF status < 500 THEN "client_error"
    ELSE "server_error"

WithResponse_NoCode(result, status) ==
    [result EXCEPT !.status = StatusLabel(status)]

\* result['status'] = ...; result['status_code'] = status; return result
WithResponse(result, status) ==
    [result EXCEPT !.status = StatusLabel(status), !.status_code = status]

(***************************************************************************)
(* Classification of a transport failure (_handle_error).  The text of an  *)
(* exception is what the code looks at: for each of the seven keywords,    *)
(* whether the text holds it, and if so in lower case or with capitals.    *)
(***************************************************************************)
Keywords == {"timed out", "cannot connect", "name not known", "gaierror",
             "ssl", "certificate", "too many"}

ExceptionTexts == [Keywords -> {"absent", "lower", "upper"}]

NoException == [k \in Keywords |-> "absent"]

\* str.lower()
Lower(text) == [k \in Keywords |-> IF text[k] = "upper" THEN "lower" ELSE text[k]]

\* `keyword in err`: a case-sensitive substring test for a lower-case keyword
Contains(err, k) == err[k] = "lower"

ErrorLabel_NoLower(text) ==
    LET err == text IN
    IF Contains(err, "timed out") THEN "timeout"
    ELSE IF Contains(err, "cannot connect") THEN "cannot_connect"
    ELSE IF Contains(err, "name not known") \/ Contains(err, "gaierror") THEN "dns_error"
    ELSE IF Contains(err, "ssl") \/ Contains(err, "certificate") THEN "ssl_error"
    ELSE IF Contains(err, "too many") THEN "too_many"
    ELSE "network_error"

ErrorLabel(text) ==
    LET err == Lower(text) IN
    IF Contains(err, "timed out") THEN "timeout"
    ELSE IF Contains(err, "cannot connect") THEN "cannot_connect"
    ELSE IF Contains(err, "name not known") \/ Contains(err, "gaierror") THEN "dns_error"
    ELSE IF Contains(err, "ssl") \/ Contains(err, "certificate") THEN "ssl_error"
    ELSE IF Contains(err, "too many") THEN "too_many"
    ELSE "network_error"

\* _handle_error(result, exception)
HandleError(result, text) ==
    [result EXCEPT !.status = ErrorLabel(text), !.error_message = "exception"]

InvalidResult_NetworkError(result) ==
    [result EXCEPT !.status = "network_error", !.error_message = "empty url"]

\* _verify_url, `if not url:` branch
InvalidResult(result) ==
    [result EXCEPT !.status = "invalid", !.error_message = "empty url"]

(***************************************************************************)
(* verify_urls: the batch loop, the semaphore and the tasks                *)
(***************************************************************************)
\* rank is history: the place of the probe's completion among the completions
\* of its batch, from the completion until gather returns (0 otherwise).
NewTask ==
    [pc |-> "new", head_requests |-> 0, get_requests |-> 0, response |-> 0,
     exc |-> NoException, result |-> NoResult, rank |-> 0]

Batches_Floor == Len(urls) \div CHUNK_SIZE

\* batches = math.ceil(len(urls) / batch_size)
Batches == (Len(urls) + CHUNK_SIZE - 1) \div CHUNK_SIZE

\* start_idx = i * batch_size; end_idx = min((i + 1) * batch_size, len(urls));
\* batch = urls[start_idx:end_idx], as 1-based positions
BatchIdx(i) == (i * CHUNK_SIZE + 1)..Min((i + 1) * CHUNK_SIZE, Len(urls))

BatchResults_ByCompletion(i) ==
    [k \in 1..Cardinality(BatchIdx(i)) |->
        task[CHOOSE t \in BatchIdx(i) : task[t].rank = k].result]

\* batch_results = await asyncio.gather(*tasks): the results in task order
BatchResults(i) ==
    [k \in 1..Cardinality(BatchIdx(i)) |-> task[i * CHUNK_SIZE + k].result]

\* The rank of the next completion in the batch being gathered.
NextRank == Cardinality({t \in BatchIdx(bi) : task[t].pc = "done"}) + 1

\* The probes in flight: the tasks inside `async with semaphore`, suspended in
\* a request of _verify_url.
InFlight == {t \in DOMAIN task : task[t].pc \in {"head", "get"}}

EngineLoop_StartAll(res, i, tk) ==
    IF i < Batches
    THEN /\ task' = [t \in DOMAIN tk |->
                        IF tk[t].pc = "new" THEN [tk[t] EXCEPT !.pc = "waiting"] ELSE tk[t]]
         /\ results' = res
         /\ bi' = i
         /\ wpc' = "gather"
         /\ UNCHANGED <<vresults, di>>
    ELSE /\ task' = tk
         /\ results' = res
         /\ bi' = i
         /\ wpc' = "display"
         /\ vresults' = res
         /\ di' = 0

EngineLoop_ReturnInLoop(res, i, tk) ==
    IF i = 0 /\ i < Batches
    THEN /\ task' = [t \in DOMAIN tk |->
                        IF t \in BatchIdx(i) THEN [tk[t] EXCEPT !.pc = "waiting"] ELSE tk[t]]
         /\ results' = res
         /\ bi' = i
         /\ wpc' = "gather"
         /\ UNCHANGED <<vresults, di>>
    ELSE /\ task' = tk
         /\ results' = res
         /\ bi' = i
         /\ wpc' = "display"
         /\ vresults' = res
         /\ di' = 0

\* The head of `for i in range(batches)` with results = res: either the tasks of
\* batch i are created and gathered, or verify_urls returns res to
\* verify_urls_async, which enters its own loop with i = 0.
EngineLoop(res, i, tk) ==
    IF i < Batches
    THEN /\ task' = [t \in DOMAIN tk |->
                        IF t \in BatchIdx(i) THEN [tk[t] EXCEPT !.pc = "waiting"] ELSE tk[t]]
         /\ results' = res
         /\ bi' = i
         /\ wpc' = "gather"
         /\ UNCHANGED <<vresults, di>>
    ELSE /\ task' = tk
         /\ results' = res
         /\ bi' = i
         /\ wpc' = "display"
         /\ vresults' = res
         /\ di' = 0

\* verify_urls is entered: results = [], the semaphore is created, and the
\* loop starts.
EnterVerifyUrls ==
    /\ wpc = "verify_urls"
    /\ permits' = ConcurrencyLimit
    /\ EngineLoop(<<>>, 0, [t \in 1..Len(urls) |-> NewTask])
    /\ UNCHANGED <<file_paths, futures, stale, start_btn, input_text, ret, cache, stopped_at, running, urls, stored, tree, stats>>

Acquire_Ungated(t) ==
    /\ wpc = "gather"
    /\ task[t].pc \in {"new", "waiting"}
    /\ LET result == InitialResult(urls[t]) IN
         IF urls[t].normalized_url = <<>>
         THEN /\ task' = [task EXCEPT ![t].pc = "done", ![t].result = InvalidResult(result),
                                      ![t].rank = NextRank]
              /\ UNCHANGED permits
         ELSE /\ task' = [task EXCEPT ![t].pc = "head", ![t].result = result,
                                      ![t].head_requests = @ + 1]
              /\ UNCHANGED permits
    /\ UNCHANGED <<file_paths, futures, stale, start_btn, input_text, ret, cache, stopped_at, running, urls, stored, tree, stats, wpc, results, bi, vresults, di>>

\* _verify(url_info) runs: `async with semaphore` is entered when a permit is
\* free, and _verify_url runs to its first suspension.  An empty URL returns at
\* once (the permit is taken and given back in the same step); otherwise the
\* HEAD request is issued.
Acquire(t) ==
    /\ wpc = "gather"
    /\ task[t].pc = "waiting"
    /\ permits > 0
    /\ LET result == InitialResult(urls[t]) IN
         IF urls[t].normalized_url = <<>>
         THEN /\ task' = [task EXCEPT ![t].pc = "done", ![t].result = InvalidResult(result),
                                      ![t].rank = NextRank]
              /\ UNCHANGED permits
         ELSE /\ task' = [task EXCEPT ![t].pc = "head", ![t].result = result,
                                      ![t].head_requests = @ + 1]
              /\ permits' = permits - 1
    /\ UNCHANGED <<file_paths, futures, stale, start_btn, input_text, ret, cache, stopped_at, running, urls, stored, tree, stats, wpc, results, bi, vresults, di>>

\* session.head answers with a status: the result is classified and returned,
\* and the semaphore is released.
HeadResponse(t, status) ==
    /\ wpc = "gather"
    /\ task[t].pc = "head"
    /\ task' = [task EXCEPT ![t].pc = "done", ![t].response = status,
                            ![t].result = WithResponse(@, status), ![t].rank = NextRank]
    /\ permits' = permits + 1
    /\ UNCHANGED <<file_paths, futures, stale, start_btn, input_text, ret, cache, stopped_at, running, urls, stored, tree, stats, wpc, results, bi, vresults, di>>

\* session.head raises: the bare except issues session.get.
HeadFails(t) ==
    /\ wpc = "gather"
    /\ task[t].pc = "head"
    /\ task' = [task EXCEPT ![t].pc = "get", ![t].get_requests = @ + 1]
    /\ UNCHANGED <<file_paths, futures, stale, start_btn, input_text, ret, cache, stopped_at, running, urls, stored, tree, stats, wpc, results, bi, permits,
                   vresults, di>>

\* session.get answers with a status.
GetResponse(t, status) ==
    /\ wpc = "gather"
    /\ task[t].pc = "get"
    /\ task' = [task EXCEPT ![t].pc = "done", ![t].response = status,
                            ![t].result = WithResponse(@, status), ![t].rank = NextRank]
    /\ permits' = permits + 1
    /\ UNCHANGED <<file_paths, futures, stale, start_btn, input_text, ret, cache, stopped_at, running, urls, stored, tree, stats, wpc, results, bi, vresults, di>>

GetFails_Retry(t, text) ==
    /\ wpc = "gather"
    /\ task[t].pc = "get"
    /\ task' = [task EXCEPT ![t].pc = "head", ![t].exc = text,
                            ![t].head_requests = @ + 1]
    /\ UNCHANGED <<file_paths, futures, stale, start_btn, input_text, ret, cache, stopped_at, running, urls, stored, tree, stats, wpc, results, bi, permits,
                   vresults, di>>

GetFails_NoRelease(t, text) ==
    /\ wpc = "gather"
    /\ task[t].pc = "get"
    /\ task' = [task EXCEPT ![t].pc = "done", ![t].exc = text,
                            ![t].result = HandleError(@, text), ![t].rank = NextRank]
    /\ UNCHANGED <<file_paths, futures, stale, start_btn, input_text, ret, cache, stopped_at, running, urls, stored, tree, stats, wpc, results, bi, permits,
                   vresults, di>>

\* session.get raises an exception whose text is `text`: `except Exception as e`
\* returns _handle_error(result, e).
GetFails(t, text) ==
    /\ wpc = "gather"
    /\ task[t].pc = "get"
    /\ task' = [task EXCEPT ![t].pc = "done", ![t].exc = text,
                            ![t].result = HandleError(@, text), ![t].rank = NextRank]
    /\ permits' = permits + 1
    /\ UNCHANGED <<file_paths, futures, stale, start_btn, input_text, ret, cache, stopped_at, running, urls, stored, tree, stats, wpc, results, bi, vresults, di>>

\* Every task of the batch has returned: gather returns, results.extend, and
\* the loop goes on.
GatherReturn ==
    /\ wpc = "gather"
    /\ \A t \in BatchIdx(bi) : task[t].pc = "done"
    /\ EngineLoop(results \o BatchResults(bi), bi + 1,
                  [t \in DOMAIN task |-> [task[t] EXCEPT !.rank = 0]])
    /\ UNCHANGED <<file_paths, futures, stale, start_btn, input_text, ret, cache, stopped_at, running, urls, stored, tree, stats, permits>>

(***************************************************************************)
(* UctApp: the GUI thread                                                  *)
(***************************************************************************)
ZeroStats == [files |-> 0, urls_found |-> 0, urls_verified |-> 0, success_count |-> 0]

\* check_input_urls, then start_validation(only_manual=True): the input box
\* holds text from which extract_from_text takes n > 0 URLs.  The run's state
\* is reset and the worker thread is started on verify_urls_only, which runs
\* verify_urls_async, which calls verify_urls(self.urls).  (With n = 0 both
\* handlers only set the status line.)  The model follows the application
\* through its first run: wpc = "none" holds until a worker has been started.
CheckInputUrls(n) ==
    /\ wpc = "none"
    /\ ~running
    /\ running' = TRUE
    /\ urls' = ManualCandidates(n)
    /\ stored' = <<>>
    /\ tree' = <<>>
    /\ stats' = [ZeroStats EXCEPT !.urls_found = n]
    /\ start_btn' = "disabled"
    /\ wpc' = "verify_urls"
    /\ UNCHANGED <<file_paths, futures, stale, input_text, ret, cache, stopped_at, results, bi, task, permits, vresults, di>>

\* stop_validation has not taken effect.
NeverStopped == [pc |-> "never", batch |-> 0, in_flight |-> FALSE]

\* stop_validation
StopValidation ==
    /\ running
    /\ running' = FALSE
    /\ stopped_at' = [pc |-> wpc, batch |-> bi, in_flight |-> InFlight # {}]
    /\ UNCHANGED <<file_paths, futures, stale, start_btn, input_text, ret, cache, urls, stored, tree, stats, wpc, results, bi, task,
                   permits, vresults, di>>

(***************************************************************************)
(* UctApp: the worker thread after verify_urls has returned                *)
(***************************************************************************)
\* batch = results[i:i + batch_size], as 1-based positions
DisplayBatch == SubSeq(vresults, di + 1, Min(di + CHUNK_SIZE, Len(vresults)))

IsSuccess(res) == res.status \in {"active", "redirect"}

RECURSIVE CountSuccess(_)
CountSuccess(seq) ==
    IF seq = <<>> THEN 0
    ELSE (IF IsSuccess(Head(seq)) THEN 1 ELSE 0) + CountSuccess(Tail(seq))

\* verify_urls_async: `for i in range(0, total, batch_size)` and
\* `if not self.running: break`
DisplayLoop ==
    /\ wpc = "display"
    /\ wpc' = IF di < Len(vresults) /\ running THEN "batch_verified" ELSE "save"
    /\ UNCHANGED <<file_paths, futures, stale, start_btn, input_text, ret, cache, stopped_at, running, urls, stored, tree, stats, results, bi, task, permits,
                   vresults, di>>

\* process_results_batch: self.stats["urls_verified"] += len(batch)
BatchVerified ==
    /\ wpc = "batch_verified"
    /\ stats' = [stats EXCEPT !.urls_verified = @ + Len(DisplayBatch)]
    /\ wpc' = "batch_success"
    /\ UNCHANGED <<file_paths, futures, stale, start_btn, input_text, ret, cache, stopped_at, running, urls, stored, tree, results, bi, task, permits, vresults, di>>

\* process_results_batch: self.stats["success_count"] += sum(...)
BatchSuccess ==
    /\ wpc = "batch_success"
    /\ stats' = [stats EXCEPT !.success_count = @ + CountSuccess(DisplayBatch)]
    /\ wpc' = "batch_tree"
    /\ UNCHANGED <<file_paths, futures, stale, start_btn, input_text, ret, cache, stopped_at, running, urls, stored, tree, results, bi, task, permits, vresults, di>>

\* process_results_batch: the rows are added to the tree; then the loop of
\* verify_urls_async sets the progress and goes to its next i.
BatchTree ==
    /\ wpc = "batch_tree"
    /\ tree' = tree \o DisplayBatch
    /\ di' = di + CHUNK_SIZE
    /\ wpc' = "display"
    /\ UNCHANGED <<file_paths, futures, stale, start_btn, input_text, ret, cache, stopped_at, running, urls, stored, stats, results, bi, task, permits, vresults>>

\* verify_urls_async: self.results = results
SaveResults ==
    /\ wpc = "save"
    /\ stored' = vresults
    /\ wpc' = "finish"
    /\ UNCHANGED <<file_paths, futures, stale, start_btn, input_text, ret, cache, stopped_at, running, urls, tree, stats, results, bi, task, permits, vresults, di>>

FinishValidation_KeepsRunning ==
    /\ wpc = "finish"
    /\ start_btn' = "normal"
    /\ wpc' = "finished"
    /\ UNCHANGED <<file_paths, futures, stale, running, input_text, ret, cache, stopped_at, urls, stored, tree, stats, results, bi, task, permits, vresults, di>>

\* finish_validation, called by verify_urls_only or by process_files; the
\* worker thread ends.
FinishValidation ==
    /\ wpc = "finish"
    /\ running' = FALSE
    /\ start_btn' = "normal"
    /\ wpc' = "finished"
    /\ UNCHANGED <<file_paths, futures, stale, input_text, ret, cache, stopped_at, urls, stored, tree, stats, results, bi, task, permits, vresults, di>>

(***************************************************************************)
(* UctApp: a run on the text of the input box or of a file                 *)
(***************************************************************************)
\* check_input_urls, then start_validation(only_manual=True), the input box
\* holding `input_text`: with no URL found both handlers only set the status line.
CheckInputText ==
    /\ wpc = "none"
    /\ ~running
    /\ Strip(input_text) # <<>>
    /\ \E found \in ExtractFromText(Strip(input_text)) :
          /\ found # <<>>
          /\ urls' = found
          /\ stats' = [ZeroStats EXCEPT !.urls_found = Len(found)]
    /\ running' = TRUE
    /\ stored' = <<>>
    /\ tree' = <<>>
    /\ start_btn' = "disabled"
    /\ wpc' = "verify_urls"
    /\ UNCHANGED <<file_paths, futures, stale, input_text, ret, cache, stopped_at, results, bi, task, permits, vresults, di>>

\* start_validation(): with no file listed and an empty input box it only
\* shows a message; otherwise the run's state is reset and the worker thread
\* is started on process_files.
StartValidation ==
    /\ wpc = "none"
    /\ start_btn = "normal"
    /\ file_paths # <<>> \/ Strip(input_text) # <<>>
    /\ ~running
    /\ running' = TRUE
    /\ urls' = <<>>
    /\ stored' = <<>>
    /\ tree' = <<>>
    /\ start_btn' = "disabled"
    /\ stats' = [ZeroStats EXCEPT !.files = Len(file_paths)]
    /\ wpc' = "process_files"
    /\ UNCHANGED <<file_paths, futures, stale, input_text, ret, cache, stopped_at, results, bi, task, permits, vresults, di>>

\* process_files: one extract_urls per file is submitted to the thread pool.
SubmitFiles ==
    /\ wpc = "process_files"
    /\ futures' = DOMAIN file_paths
    /\ wpc' = "extract"
    /\ UNCHANGED <<file_paths, stale, start_btn, input_text, ret, cache, stopped_at, running, urls, stored, tree, stats, results, bi, task, permits, vresults, di>>

\* process_files: `for i, future in enumerate(as_completed(futures))`, one
\* turn: the loop ends when every future has been taken, breaks when the run
\* was stopped, and otherwise takes the URLs of a file that has been extracted
\* (extract_urls of a text file is _extract_text_urls of its content).
ExtractFiles ==
    /\ wpc = "extract"
    /\ IF futures = {} \/ ~running
       THEN /\ wpc' = "add_manual"
            /\ UNCHANGED <<futures, urls, stats>>
       ELSE \E f \in futures :
               \E found \in ExtractTextUrls(file_paths[f], "file") :
                  /\ futures' = futures \ {f}
                  /\ urls' = urls \o found
                  /\ stats' = [stats EXCEPT !.urls_found = @ + Len(found)]
                  /\ UNCHANGED wpc
    /\ UNCHANGED <<file_paths, stale, start_btn, input_text, ret, cache, stopped_at, running, stored, tree, results, bi, task, permits, vresults, di>>

\* process_files: `if self.running:` the URLs of the input box are added.
AddManualUrls ==
    /\ wpc = "add_manual"
    /\ IF running /\ Strip(input_text) # <<>>
       THEN \E manual_urls \in ExtractFromText(Strip(input_text)) :
               /\ urls' = urls \o manual_urls
               /\ stats' = [stats EXCEPT !.urls_found = @ + Len(manual_urls)]
       ELSE UNCHANGED <<urls, stats>>
    /\ wpc' = "after_extraction"
    /\ UNCHANGED <<file_paths, futures, stale, start_btn, input_text, ret, cache, stopped_at, running, stored, tree, results, bi, task, permits, vresults, di>>

AfterExtraction_IgnoresStop ==
    /\ wpc = "after_extraction"
    /\ wpc' = IF urls = <<>> THEN "finish" ELSE "verify_urls"
    /\ UNCHANGED <<file_paths, futures, stale, start_btn, input_text, ret, cache, stopped_at, running, urls, stored, tree, stats, results, bi, task, permits, vresults, di>>

\* process_files: `if not self.running or not self.urls:` finish_validation
\* and return; otherwise verify_urls_async is run.
AfterExtraction ==
    /\ wpc = "after_extraction"
    /\ wpc' = IF ~running \/ urls = <<>> THEN "finish" ELSE "verify_urls"
    /\ UNCHANGED <<file_paths, futures, stale, start_btn, input_text, ret, cache, stopped_at, running, urls, stored, tree, stats, results, bi, task, permits, vresults, di>>

\* process_files up to the call of verify_urls_async.
ProcessFiles ==
    \/ SubmitFiles
    \/ ExtractFiles
    \/ AddManualUrls
    \/ AfterExtraction

(***************************************************************************)
(* UctApp: an exception in the worker thread, and a run started while the  *)
(* worker of an earlier run is alive                                       *)
(***************************************************************************)
\* An exception leaves verify_urls, or the thread pool of process_files does
\* not start.  verify_urls_async, verify_urls_only and process_files have no
\* handler: asyncio.run cancels the tasks that are left and raises, and the
\* worker thread ends without calling finish_validation.
EngineFails ==
    /\ wpc \in {"process_files", "verify_urls", "gather"}
    /\ task' = [t \in DOMAIN task |->
                    IF task[t].pc \in {"waiting", "head", "get"}
                    THEN [task[t] EXCEPT !.pc = "cancelled"]
                    ELSE task[t]]
    /\ permits' = permits + Cardinality(InFlight)
    /\ wpc' = "failed"
    /\ UNCHANGED <<file_paths, futures, stale, start_btn, input_text, ret, cache, stopped_at, running, urls, stored, tree, stats, results, bi, vresults, di>>

\* The worker threads that have been started and have neither returned from
\* finish_validation nor ended in an exception.
LiveWorkers == stale + (IF wpc \in {"none", "finished", "failed"} THEN 0 ELSE 1)

\* check_input_urls, then start_validation(only_manual=True), after a worker
\* has been started before: the button of check_input_urls is never disabled
\* and start_validation tests self.running only.  The model follows the new
\* worker; of the worker of the earlier run, when it is still alive, it keeps
\* that it is alive and that it will call finish_validation.
CheckInputTextAgain ==
    /\ wpc # "none"
    /\ ~running
    /\ LiveWorkers <= MaxStale
    /\ Strip(input_text) # <<>>
    /\ \E found \in ExtractFromText(Strip(input_text)) :
          /\ found # <<>>
          /\ urls' = found
          /\ stats' = [ZeroStats EXCEPT !.urls_found = Len(found)]
    /\ running' = TRUE
    /\ stored' = <<>>
    /\ tree' = <<>>
    /\ start_btn' = "disabled"
    /\ stale' = LiveWorkers
    /\ wpc' = "verify_urls"
    /\ results' = <<>>
    /\ bi' = 0
    /\ task' = <<>>
    /\ permits' = 0
    /\ vresults' = <<>>
    /\ di' = 0
    /\ futures' = {}
    /\ stopped_at' = NeverStopped
    /\ UNCHANGED <<file_paths, input_text, ret, cache>>

\* The worker of an earlier run calls finish_validation and ends.
StaleWorkerFinishes ==
    /\ stale > 0
    /\ running' = FALSE
    /\ start_btn' = "normal"
    /\ stale' = stale - 1
    /\ UNCHANGED <<file_paths, futures, input_text, ret, cache, stopped_at, urls, stored, tree, stats, wpc, results, bi, task, permits, vresults, di>>

(***************************************************************************)
(* Specifications                                                          *)
(***************************************************************************)
\* The outcomes of a request in the specifications with several candidates.
SampleStatus == {200, 404}

SampleTexts == {[NoException EXCEPT !["timed out"] = "lower"]}

EngineNext(Status, Texts) ==
    \/ EnterVerifyUrls
    \/ \E t \in DOMAIN task : Acquire(t)
    \/ \E t \in DOMAIN task : \E s \in Status : HeadResponse(t, s)
    \/ \E t \in DOMAIN task : HeadFails(t)
    \/ \E t \in DOMAIN task : \E s \in Status : GetResponse(t, s)
    \/ \E t \in DOMAIN task : \E e \in Texts : GetFails(t, e)
    \/ GatherReturn

\* The application after UctApp.__init__.
Init ==
    /\ running = FALSE
    /\ urls = <<>>
    /\ stored = <<>>
    /\ tree = <<>>
    /\ stats = ZeroStats
    /\ wpc = "none"
    /\ results = <<>>
    /\ bi = 0
    /\ task = <<>>
    /\ permits = 0
    /\ vresults = <<>>
    /\ di = 0
    /\ stopped_at = NeverStopped
    /\ input_text = <<>>
    /\ ret = <<>>
    /\ cache = NoCache
    /\ file_paths = <<>>
    /\ futures = {}
    /\ start_btn = "normal"
    /\ stale = 0

Next ==
    \/ \E n \in 1..MaxUrls : CheckInputUrls(n)
    \/ StopValidation
    \/ EngineNext(SampleStatus, SampleTexts)
    \/ DisplayLoop
    \/ BatchVerified
    \/ BatchSuccess
    \/ BatchTree
    \/ SaveResults
    \/ FinishValidation

Spec == Init /\ [][Next]_vars

\* verify_urls called on any list of at most MaxUrls candidates, each with an
\* empty or a non-empty normalized URL.
CandidateLists ==
    UNION {[1..n -> {"empty", "url"}] : n \in 0..MaxUrls}

InitVerify ==
    /\ running = TRUE
    /\ \E shape \in CandidateLists :
          urls = [i \in DOMAIN shape |->
                     Candidate(<<i>>, IF shape[i] = "empty" THEN <<>> ELSE <<i>>, "file")]
    /\ stored = <<>>
    /\ tree = <<>>
    /\ stats = ZeroStats
    /\ wpc = "verify_urls"
    /\ results = <<>>
    /\ bi = 0
    /\ task = <<>>
    /\ permits = 0
    /\ vresults = <<>>
    /\ di = 0
    /\ stopped_at = NeverStopped
    /\ input_text = <<>>
    /\ ret = <<>>
    /\ cache = NoCache
    /\ file_paths = <<>>
    /\ futures = {}
    /\ start_btn = "disabled"
    /\ stale = 0

NextVerify == EngineNext(SampleStatus, SampleTexts)

SpecVerify == InitVerify /\ [][NextVerify]_vars

\* One call of _verify_url (verify_urls on a list of one candidate), with every
\* HTTP status and every exception text.
InitProbe ==
    /\ InitVerify
    /\ Len(urls) = 1

NextProbe == EngineNext(HttpStatus, ExceptionTexts)

SpecProbe == InitProbe /\ [][NextProbe]_vars

\* normalize_url on one string: a scheme or none, then at most MaxLen tokens;
\* and the strings the specification names.
UrlAlphabet == {"Example", "com", ".", "/", "?", "#", ":", " ", "["}

StringsOver(alphabet, n) == UNION {[1..k -> alphabet] : k \in 0..n}

SpecialInputs ==
    {<<"not", " ", "a", " ", "url">>,
     <<"https://", "a", ".", "com", "/", "x", "?", "y=1">>,
     <<"https://", "a", ".", "com", "/", "x">>,
     <<"caf", "e+U0301", ".", "com">>,
     <<"http://", "a", ".", "com", "/", "x", ".", ";", "y=1">>}

NormalizeInputs ==
    {p \o b : p \in {<<>>, <<"http://">>, <<"https://">>},
              b \in StringsOver(UrlAlphabet, MaxLen)} \cup SpecialInputs

InitNormalize ==
    /\ running = FALSE
    /\ urls = <<>>
    /\ stored = <<>>
    /\ tree = <<>>
    /\ stats = ZeroStats
    /\ wpc = "none"
    /\ results = <<>>
    /\ bi = 0
    /\ task = <<>>
    /\ permits = 0
    /\ vresults = <<>>
    /\ di = 0
    /\ stopped_at = NeverStopped
    /\ input_text \in NormalizeInputs
    /\ ret = <<>>
    /\ cache = NoCache
    /\ file_paths = <<>>
    /\ futures = {}
    /\ start_btn = "normal"
    /\ stale = 0

NextNormalize ==
    \/ NormalizeCall
    \/ NormalizeAgain

SpecNormalize == InitNormalize /\ [][NextNormalize]_vars

\* Calls of the cached normalize_url, in any order, on more strings than the
\* cache holds.
CacheInputs ==
    {<<>>,
     <<"com">>,
     <<"Example", ".", "com">>,
     <<"http://", "Example", ".", "com">>,
     <<"https://", "Example", ".", "com", "?", "com">>,
     <<"http://", "com", ".", "#">>}

NextCache ==
    \/ \E x \in CacheInputs : CacheHit(x)
    \/ \E x \in CacheInputs : CacheMiss(x)

SpecCache == Init /\ [][NextCache]_vars

\* One run of the application on a text: the input box, or else the one file
\* listed, holds at most MaxLen tokens, or one of two longer texts.
TextAlphabet == {"http://", "Example", "com", ".", "/", "?", " ", "'"}

ScenarioText ==
    <<"Visit", " ", "http://", "Example", ".", "com", "/", "Page", "?", "x=1", " ",
      "now", ".">>

TwoMatchText ==
    <<"http://", "/", "Example", " ", "http://", "Example", ".", "com">>

Texts == StringsOver(TextAlphabet, MaxLen) \cup {ScenarioText, TwoMatchText}

InitExtract ==
    /\ running = FALSE
    /\ urls = <<>>
    /\ stored = <<>>
    /\ tree = <<>>
    /\ stats = ZeroStats
    /\ wpc = "none"
    /\ results = <<>>
    /\ bi = 0
    /\ task = <<>>
    /\ permits = 0
    /\ vresults = <<>>
    /\ di = 0
    /\ stopped_at = NeverStopped
    /\ \E t \in Texts :
          \/ input_text = t /\ file_paths = <<>>
          \/ input_text = <<>> /\ file_paths = <<t>>
    /\ ret = <<>>
    /\ cache = NoCache
    /\ futures = {}
    /\ start_btn = "normal"
    /\ stale = 0

NextExtract ==
    \/ CheckInputText
    \/ StartValidation
    \/ ProcessFiles
    \/ EngineNext(SampleStatus, SampleTexts)
    \/ FinishValidation

SpecExtract == InitExtract /\ [][NextExtract]_vars

\* One run of the application, started by either button and stopped at any
\* point or not at all: no file, one file or two files, and the input box empty
\* or not.
RunFiles ==
    {<<>>,
     <<(<<"http://", "Example", ".", "com">>)>>,
     <<(<<"http://", "Example", ".", "com">>),
       (<<"http://", "com", ".", "com", "/", "Page">>)>>}

RunTexts == {<<>>, <<"http://", "Example", ".", "com", "?", "x">>}

InitStop ==
    /\ running = FALSE
    /\ urls = <<>>
    /\ stored = <<>>
    /\ tree = <<>>
    /\ stats = ZeroStats
    /\ wpc = "none"
    /\ results = <<>>
    /\ bi = 0
    /\ task = <<>>
    /\ permits = 0
    /\ vresults = <<>>
    /\ di = 0
    /\ stopped_at = NeverStopped
    /\ input_text \in RunTexts
    /\ ret = <<>>
    /\ cache = NoCache
    /\ file_paths \in RunFiles
    /\ futures = {}
    /\ start_btn = "normal"
    /\ stale = 0

\* The steps of the worker thread and of its event loop.
WorkerNext ==
    \/ SubmitFiles
    \/ ExtractFiles
    \/ AddManualUrls
    \/ AfterExtraction
    \/ EngineNext(SampleStatus, SampleTexts)
    \/ DisplayLoop
    \/ BatchVerified
    \/ BatchSuccess
    \/ BatchTree
    \/ SaveResults
    \/ FinishValidation

NextStop ==
    \/ CheckInputText
    \/ StartValidation
    \/ StopValidation
    \/ WorkerNext

SpecStop == InitStop /\ [][NextStop]_vars

\* The same run when the worker thread is scheduled, the event loop runs its
\* tasks, and every extraction and every request ends (a request ends at the
\* latest with the ClientTimeout of REQUEST_TIMEOUT seconds).
SpecStopFair == SpecStop /\ WF_vars(WorkerNext)

\* The same run when the thread pool or verify_urls can fail as a whole.
NextFailure ==
    \/ NextStop
    \/ EngineFails

SpecFailure == InitStop /\ [][NextFailure]_vars

\* Runs of the application one after the other, a run being started also
\* while the worker of an earlier run is alive.
NextRestart ==
    \/ NextStop
    \/ CheckInputTextAgain
    \/ StaleWorkerFinishes

SpecRestart == InitStop /\ [][NextRestart]_vars

(***************************************************************************)
(* Properties                                                              *)
(***************************************************************************)
ErrorCategories ==
    {"invalid", "timeout", "cannot_connect", "dns_error", "ssl_error", "too_many",
     "network_error"}

ResponseCategories ==
    {"informational", "active", "redirect", "client_error", "server_error"}

\* The tasks that have returned from _verify_url.
Returned == {t \in DOMAIN task : task[t].pc = "done"}

\* The last position of batch i in the input.
BatchLast(i) == Min((i + 1) * CHUNK_SIZE, Len(urls))

\* C1: during verify_urls the number of probes in flight never exceeds the
\* concurrency limit min(MAX_ASYNC_TASKS, cap), whatever the number of
\* candidates and the order of probe starts and completions.
C1_ConcurrencyBound == Cardinality(InFlight) <= ConcurrencyLimit

\* C1, its case: in a batch after the first, every probe of the batch is in
\* flight at once.
C1_Witness ==
    /\ wpc = "gather"
    /\ bi >= 1
    /\ Cardinality(InFlight) = CHUNK_SIZE

\* C2: verify_urls, returned, on candidates that all have a non-empty
\* normalized URL: as many results as candidates, and the i-th result is the
\* i-th candidate's, so each candidate has exactly one result.
C2_Completeness ==
    (wpc = "display" /\ \A i \in DOMAIN urls : urls[i].normalized_url # <<>>)
        => /\ Len(vresults) = Len(urls)
           /\ \A i \in DOMAIN urls :
                 /\ vresults[i].original_url = urls[i].original_url
                 /\ \A j \in DOMAIN vresults :
                       vresults[j].original_url = urls[i].original_url => j = i

\* C2, its case: verify_urls has returned on a list of several batches whose
\* length is no multiple of the batch size.
C2_Witness ==
    /\ wpc = "display"
    /\ \A i \in DOMAIN urls : urls[i].normalized_url # <<>>
    /\ Len(urls) > CHUNK_SIZE
    /\ Len(urls) % CHUNK_SIZE # 0
    /\ Len(vresults) = Len(urls)

\* C3, as claimed: when the run has finished after the display loop stopped on
\* a cancellation with k >= 1 batches consumed and more to come, the displayed
\* rows and the stored results (UctApp.results) are exactly the results of
\* batches 1..k.
C3_CancelledRunKeepsOnlyConsumed ==
    (wpc = "finished" /\ di >= CHUNK_SIZE /\ di < Len(vresults))
        => /\ tree = SubSeq(vresults, 1, di)
           /\ stored = SubSeq(vresults, 1, di)

\* C4, as claimed: once stop_validation has taken effect while probes of
\* batch k were in flight, batch k runs to completion and no request of a
\* candidate of a later batch is ever issued.
C4_NoBatchAfterCancel ==
    (stopped_at.pc = "gather" /\ stopped_at.in_flight)
        => /\ \A t \in DOMAIN task :
                 t > BatchLast(stopped_at.batch) => task[t].head_requests = 0
           /\ wpc # "gather" => \A t \in DOMAIN task :
                 t <= BatchLast(stopped_at.batch) => task[t].pc = "done"

C6_BatchVisibleAtomically ==
    /\ stats.urls_verified <= Len(vresults)
    /\ stats.success_count = CountSuccess(SubSeq(vresults, 1, stats.urls_verified))
    /\ Len(tree) = stats.urls_verified

\* C7: for every result returned by _verify_url, status_code = 0 exactly when
\* the category is an error category, and a result whose category comes from
\* an HTTP response carries that response's status, which is not 0.
C7_ZeroCodeIffError ==
    \A t \in Returned :
        LET res == task[t].result IN
        /\ res.status \in ErrorCategories \cup ResponseCategories
        /\ res.status_code = 0 <=> res.status \in ErrorCategories
        /\ res.status \in ResponseCategories
              => res.status_code = task[t].response /\ res.status_code # 0

\* C7, its case: a probe has returned after a transport failure.
C7_Witness ==
    \E t \in Returned :
        /\ task[t].get_requests = 1
        /\ task[t].response = 0
        /\ task[t].result.status = "ssl_error"
        /\ task[t].result.status_code = 0

\* The table of the specification, by ranges.
CategoryOfRange(code) ==
    CASE code \in 100..199 -> "informational"
      [] code \in 200..299 -> "active"
      [] code \in 300..399 -> "redirect"
      [] code \in 400..499 -> "client_error"
      [] code \in 500..599 -> "server_error"

\* C8: for every HTTP status 100..599 the category of the result is the
\* table's, and the result's status_code is the response's status.
C8_ClassificationTable ==
    \A t \in Returned :
        task[t].response \in 100..599
            => /\ task[t].result.status = CategoryOfRange(task[t].response)
               /\ task[t].result.status_code = task[t].response

\* C8, its case: a probe answered 301 has returned a redirect.
C8_Witness ==
    \E t \in Returned :
        /\ task[t].response = 301
        /\ task[t].result.status = "redirect"
        /\ task[t].result.status_code = 301

\* The precedence of the specification: the rank of each keyword and the
\* category of each rank.
KeywordRank(k) ==
    CASE k = "timed out" -> 1
      [] k = "cannot connect" -> 2
      [] k \in {"name not known", "gaierror"} -> 3
      [] k \in {"ssl", "certificate"} -> 4
      [] k = "too many" -> 5

CategoryOfRank(r) ==
    <<"timeout", "cannot_connect", "dns_error", "ssl_error", "too_many">>[r]

CategoryByPrecedence(text) ==
    LET ranks == {KeywordRank(k) : k \in {kw \in Keywords : text[kw] # "absent"}} IN
    IF ranks = {} THEN "network_error"
    ELSE CategoryOfRank(CHOOSE r \in ranks : \A q \in ranks : r <= q)

\* The probes that returned through _handle_error.
Failed == {t \in Returned : task[t].result.error_message = "exception"}

\* C9: the category _handle_error assigns is that of the highest-precedence
\* keyword the failure's text holds in any letter case, and the generic
\* network error when it holds none.
C9_ErrorPrecedence ==
    \A t \in Failed : task[t].result.status = CategoryByPrecedence(task[t].exc)

\* C9, its case: a failure whose text holds two keywords of different rank
\* (as aiohttp's "Cannot connect to host ... ssl:...") has been classified.
C9_Witness ==
    \E t \in Failed :
        /\ task[t].exc["cannot connect"] = "upper"
        /\ task[t].exc["ssl"] = "lower"
        /\ task[t].exc["timed out"] = "absent"
        /\ task[t].result.status = "cannot_connect"

\* C10: no retries: each candidate has at most one HEAD and one GET request,
\* a probe that got no response has returned one result, of an error category
\* with status_code 0, and no candidate has two results.
C10_NoRetries ==
    /\ \A t \in DOMAIN task :
          /\ task[t].head_requests <= 1
          /\ task[t].get_requests <= 1
          /\ task[t].get_requests = 1 => task[t].head_requests = 1
    /\ \A t \in Failed :
          /\ task[t].result.status \in ErrorCategories
          /\ task[t].result.status_code = 0
    /\ \A i, j \in DOMAIN results :
          results[i].original_url = results[j].original_url => i = j

\* C10, its case: a probe whose HEAD and GET both failed has returned, and its
\* result is in the results of verify_urls.
C10_Witness ==
    \E t \in Failed :
        /\ task[t].head_requests = 1
        /\ task[t].get_requests = 1
        /\ \E i \in DOMAIN results : results[i] = task[t].result

\* C11, as claimed: normalize_url is idempotent: when normalize_url(x) returns a
\* value, normalize_url of that value returns the same value.
C11_Idempotent == Len(ret) = 2 => ret[2] = ret[1]

\* The string s with its query string removed: what follows the first "?" up
\* to the fragment, when no "#" comes before that "?".
WithoutQuery(s) ==
    LET tail == From(s, {"?", "#"}) IN
    IF tail # <<>> /\ Head(tail) = "?"
    THEN Before(s, {"?", "#"}) \o From(Tail(tail), {"#"})
    ELSE s

\* C12, as claimed: a URL with a query string and the same URL without it,
\* when normalize_url returns a value for both, normalize to the same value.
C12_QueryDiscarded ==
    (/\ Len(ret) >= 1
     /\ HasScheme(input_text)
     /\ WithoutQuery(input_text) # input_text
     /\ ret[1] # None
     /\ NormalizeUrl(WithoutQuery(input_text)) # None)
        => ret[1] = NormalizeUrl(WithoutQuery(input_text))

\* The malformed inputs of the specification: the trimmed string has no
\* http:// or https:// prefix and no leading "//" and holds "://" or no ".";
\* or the string, parsed, has no host.
Malformed(x) ==
    LET trimmed == RStrip(Strip(x), TrailingPunctuation) IN
    \/ /\ ~HasScheme(trimmed)
       /\ ~StartsWith(trimmed, <<"/", "/">>)
       /\ HasSchemeSeparator(trimmed) \/ "." \notin Range(trimmed)
    \/ /\ WithScheme(x) # None
       /\ UrlParse(WithScheme(x)).netloc = <<>>

\* C13: normalize_url raises nothing, returns None for every malformed input,
\* and returns None for "not a url" and for the empty string.
C13_RejectsMalformed ==
    Len(ret) >= 1 =>
        /\ ret[1] # <<"ValueError">>
        /\ Malformed(input_text) => ret[1] = None
        /\ input_text \in {<<"not", " ", "a", " ", "url">>, <<>>} => ret[1] = None

\* C13, its case: urlparse has raised on a string that has a scheme, and
\* normalize_url has returned None.
C13_Witness ==
    /\ Len(ret) = 1
    /\ HasScheme(input_text)
    /\ UrlParse(WithScheme(input_text)).raises
    /\ ret[1] = None

\* C14: every call of the cached normalize_url returns what the function
\* without the cache returns on that input.
C14_CacheTransparent ==
    cache.hits + cache.misses > 0 => ret = <<NormalizeUrl(input_text)>>

\* C14, its case: more misses than the cache has entries, so an entry was
\* evicted; then hits; and the last call returned a value that is not the
\* most recent miss's.
C14_Witness ==
    /\ cache.misses > CACHE_SIZE
    /\ cache.hits >= 2
    /\ Len(cache.entries) = CACHE_SIZE
    /\ ret[1] # None
    /\ \E i \in DOMAIN cache.entries : cache.entries[i].value = None

\* The strings the two regular expressions match in s.
RawMatches(s) == Range(UrlRegexMatches(s)) \cup Range(AltRegexMatches(s))

\* The matches of the texts given to the run: the input box and the files.
GivenMatches == UNION {RawMatches(s) : s \in {input_text} \cup Range(file_paths)}

\* A normalized URL that normalize_url returned for a match of the text and
\* that is neither None nor empty.
Accepted(u) ==
    /\ u # None
    /\ u # <<>>
    /\ \E m \in GivenMatches : u = NormalizeUrl(m)

\* C15: every candidate the extractor emits, and every result of the
\* verification, has a normalized URL that is non-empty and was returned by
\* normalize_url; a match whose normalization fails is no candidate.
C15_CandidatesAccepted ==
    /\ \A i \in DOMAIN urls : Accepted(urls[i].normalized_url)
    /\ \A t \in Returned : Accepted(task[t].result.normalized_url)
    /\ \A i \in DOMAIN vresults : Accepted(vresults[i].normalized_url)
    /\ \A m \in GivenMatches :
          ~Truthy(NormalizeUrl(m)) => \A i \in DOMAIN urls : urls[i].original_url # m

\* C15, its case: a file with two matches, one of which normalize_url rejects;
\* the other has been verified.
C15_Witness ==
    /\ file_paths = <<TwoMatchText>>
    /\ \E m \in GivenMatches : NormalizeUrl(m) = None
    /\ wpc = "display"
    /\ Len(vresults) = 1
    /\ vresults[1].source_file = "file"

\* The scenario with the normalized form `expected`: the text yields exactly
\* one candidate, of that normalized form, and a probe of it answered 200
\* returns the category active and the status code 200.
Scenario(expected) ==
    (input_text = ScenarioText
     /\ wpc \notin {"none", "process_files", "extract", "add_manual"})
        => /\ Len(urls) = 1
           /\ urls[1].normalized_url = expected
           /\ \A t \in Returned :
                 task[t].response = 200
                     => /\ task[t].result.status = "active"
                        /\ task[t].result.status_code = 200
                        /\ task[t].result.normalized_url = expected

\* C16, as claimed: the normalized form is "https://example.com/page".
C16_ScenarioAsClaimed ==
    Scenario(<<"https://", "example", ".", "com", "/", "page">>)

\* C16, amended: the normalized form is "http://example.com/Page": the scheme
\* is kept and only the host is lower-cased.
C16_ScenarioKeepsSchemeAndPath ==
    Scenario(<<"http://", "example", ".", "com", "/", "Page">>)

\* C16, its case: the candidate of the scenario's text has been answered 200.
C16_Witness ==
    /\ input_text = ScenarioText
    /\ Len(urls) = 1
    /\ urls[1].source_file = "manual"
    /\ \E t \in Returned : task[t].response = 200 /\ task[t].result.status = "active"

\* C17, as claimed: batches are no concurrency boundary: while a probe of
\* batch k is in flight and the gate has a free permit, a probe of batch k+1
\* can start.
C17_GateIsOnlyLimit ==
    (/\ wpc = "gather"
     /\ permits > 0
     /\ bi + 1 < Batches
     /\ InFlight \cap BatchIdx(bi) # {})
        => \E t \in BatchIdx(bi + 1) : ENABLED Acquire(t)

\* C17, amended: batches are a concurrency boundary: the probes in flight are
\* all of the batch being gathered, every earlier candidate has its result
\* and no later candidate has started; so at most CHUNK_SIZE probes are in
\* flight, and with CHUNK_SIZE below the limit the gate always has a permit.
C17_BatchIsBoundary ==
    wpc = "gather" =>
        /\ InFlight \subseteq BatchIdx(bi)
        /\ \A t \in DOMAIN task :
              /\ t > BatchLast(bi) => task[t].pc = "new" /\ task[t].head_requests = 0
              /\ t <= bi * CHUNK_SIZE => task[t].pc = "done"
        /\ Cardinality(InFlight) <= CHUNK_SIZE
        /\ CHUNK_SIZE < ConcurrencyLimit
              => Cardinality(InFlight) < ConcurrencyLimit /\ permits > 0

\* C17, its case: every probe of a batch is in flight, the gate has permits
\* left, and the candidates of the next batch wait for gather to return.
C17_Witness ==
    /\ wpc = "gather"
    /\ bi + 1 < Batches
    /\ InFlight = BatchIdx(bi)
    /\ permits > 0
    /\ \A t \in BatchIdx(bi + 1) : task[t].pc = "new"

\* gather returns the results of batch bi and they are added to `results`.
GatherStep == wpc = "gather" /\ bi' = bi + 1

\* The position in the list res of the result of candidate t.
PositionOf(res, t) ==
    CHOOSE k \in DOMAIN res : res[k].original_url = urls[t].original_url

\* C18, as claimed: in the results a batch adds, the result of a probe that
\* completed before another probe of the batch precedes that probe's result.
C18_OrderedByCompletion ==
    [][GatherStep =>
          \A a, b \in BatchIdx(bi) :
              task[a].rank < task[b].rank
                  => PositionOf(results', a) < PositionOf(results', b)]_vars

\* C18, amended: the results a batch adds are in the order of the candidates
\* in the input, whatever the order in which the probes completed.
C18_OrderedByInput ==
    [][GatherStep =>
          \A a, b \in BatchIdx(bi) :
              /\ results'[a] = task[a].result
              /\ a < b => PositionOf(results', a) < PositionOf(results', b)]_vars

\* C18, its case: in a batch after the first every probe has completed, a
\* later candidate's before an earlier candidate's, and gather is to return.
C18_Witness ==
    /\ wpc = "gather"
    /\ bi >= 1
    /\ BatchIdx(bi) \subseteq Returned
    /\ \E a, b \in BatchIdx(bi) : a < b /\ task[b].rank < task[a].rank

\* The statuses with which a server rejects the method of a request:
\* 405 Method Not Allowed and 501 Not Implemented.
MethodRejection == {405, 501}

\* C19, as claimed: a probe that has returned issued a HEAD request first; if
\* the HEAD request failed or was answered with a method-rejection status, a
\* GET request was issued, and the result is that of the GET request.
C19_FallbackOnRejection ==
    \A t \in Returned :
        urls[t].normalized_url # <<>> =>
            /\ task[t].head_requests = 1
            /\ task[t].get_requests = 0 => task[t].response \notin MethodRejection
            /\ (task[t].get_requests = 1 /\ task[t].response # 0)
                  => task[t].result.status_code = task[t].response

\* C20: a candidate whose normalized URL is empty has no HEAD and no GET
\* request, is never in flight, and its result, once returned, has the
\* category invalid and status_code 0 and does not come from _handle_error.
C20_EmptyUrlInvalid ==
    \A t \in DOMAIN task :
        urls[t].normalized_url = <<>> =>
            /\ task[t].head_requests = 0
            /\ task[t].get_requests = 0
            /\ t \notin InFlight
            /\ t \in Returned
                  => /\ task[t].result.status = "invalid"
                     /\ task[t].result.status_code = 0
                     /\ t \notin Failed

\* C20, its case: in one batch a candidate with an empty normalized URL has
\* returned invalid and a candidate with a URL has been probed.
C20_Witness ==
    \E t, u \in Returned :
        /\ urls[t].normalized_url = <<>>
        /\ task[t].result.status = "invalid"
        /\ urls[u].normalized_url # <<>>
        /\ task[u].head_requests = 1

\* C26: from the creation of the semaphore on, the free permits and the probes
\* in flight add up to the concurrency limit; a probe that has returned, with
\* a response, as invalid or with a transport error, holds no permit; and when
\* verify_urls has returned every permit is free.
C26_PermitsConserved ==
    /\ wpc # "verify_urls" => permits + Cardinality(InFlight) = ConcurrencyLimit
    /\ Returned \cap InFlight = {}
    /\ wpc = "display" => permits = ConcurrencyLimit

\* C26, its case: verify_urls has returned after a probe with a response, an
\* invalid candidate and a probe with a transport error, in several batches.
C26_Witness ==
    /\ wpc = "display"
    /\ Len(vresults) > CHUNK_SIZE
    /\ \E a, b, c \in Returned :
          /\ task[a].response # 0
          /\ task[b].result.status = "invalid"
          /\ c \in Failed

\* C27: verify_urls leaves its input as it is, and when it returns, the i-th
\* result carries the original URL, the normalized URL and the source of the
\* i-th candidate, for every candidate, also those with an empty URL.
C27_ResultsFollowInput ==
    [][/\ urls' = urls
       /\ wpc' = "display" =>
             /\ Len(vresults') = Len(urls)
             /\ \A i \in DOMAIN urls :
                   /\ vresults'[i].original_url = urls[i].original_url
                   /\ vresults'[i].normalized_url = urls[i].normalized_url
                   /\ vresults'[i].source_file = urls[i].source_file]_vars

\* C27, its case: verify_urls has returned on several batches that hold
\* invalid candidates, answered probes and failed probes.
C27_Witness ==
    /\ wpc = "display"
    /\ Len(vresults) = Len(urls)
    /\ Len(urls) > CHUNK_SIZE
    /\ \E i, j, k \in DOMAIN vresults :
          /\ i < j /\ j < k
          /\ vresults[i].status \in ErrorCategories \ {"invalid"}
          /\ vresults[j].status = "invalid"
          /\ vresults[k].status \in ResponseCategories

\* C24, as claimed: when the run has finished, the stored results
\* (UctApp.results, read by generate_report and export_results) are as many as
\* the urls_verified counter says, also when the run was stopped while the
\* batches were being shown.
C24_StoredEqualsVerified ==
    wpc = "finished" => Len(stored) = stats.urls_verified

\* The results process_results_batch has counted in urls_verified.
Processed == SubSeq(vresults, 1, Min(stats.urls_verified, Len(vresults)))

\* C25, as claimed: in every state success_count <= urls_verified <=
\* urls_found, and success_count is the number of processed results of the
\* category active or redirect.
C25_CountersConsistent ==
    /\ stats.success_count <= stats.urls_verified
    /\ stats.urls_verified <= stats.urls_found
    /\ stats.success_count = CountSuccess(Processed)

\* Where the worker is during the extraction phase of process_files, the
\* post-extraction check (`if not self.running or not self.urls`) included.
ExtractionPhase == {"process_files", "extract", "add_manual", "after_extraction"}

\* The run has gone from the extraction phase to finish_validation.
FinishedAfterExtraction == wpc \in {"finish", "finished"} /\ task = <<>>

ManualUrlsAdded == \E i \in DOMAIN urls : urls[i].source_file = "manual"

\* C28, as claimed: when stop_validation took effect during the extraction
\* phase, process_files goes to finish_validation, no probe is ever issued,
\* and the URLs of the input box have not been added.
C28_StoppedExtractionAddsNothing ==
    stopped_at.pc \in ExtractionPhase
        => /\ wpc \in ExtractionPhase \cup {"finish", "finished"}
           /\ task = <<>>
           /\ FinishedAfterExtraction => ~ManualUrlsAdded

\* C28, amended: when stop_validation took effect during the extraction
\* phase, process_files goes to finish_validation and no probe is ever
\* issued; the URLs of the input box have not been added when the stop came
\* before the test `if self.running:` of line 822, and have been added when
\* it came between that test and the post-extraction check.
C28_StoppedExtractionProbesNothing ==
    stopped_at.pc \in ExtractionPhase
        => /\ wpc \in ExtractionPhase \cup {"finish", "finished"}
           /\ task = <<>>
           /\ FinishedAfterExtraction =>
                 (ManualUrlsAdded <=>
                     /\ stopped_at.pc = "after_extraction"
                     /\ ExtractFromText(Strip(input_text)) # {<<>>})

\* C28, its case: a run on a file with a URL and an input box with a URL was
\* stopped before the URLs of the input box were added, and has finished.
C28_Witness ==
    /\ stopped_at.pc \in {"extract", "add_manual"}
    /\ wpc = "finished"
    /\ urls # <<>>
    /\ ExtractFromText(Strip(input_text)) # {<<>>}
    /\ ~ManualUrlsAdded

\* C21, as claimed: when the engine has failed as a whole, the run has ended,
\* that is, it is not in the running state and the start button is enabled
\* again, and the failure has left no per-URL result, stored or shown.
C21_EngineFailureEndsRun ==
    wpc = "failed"
        => /\ ~running
           /\ start_btn = "normal"
           /\ stored = <<>>
           /\ tree = <<>>

\* C22, as claimed: at most one worker thread (process_files or
\* verify_urls_only) is alive at any time, whatever the sequence of start,
\* check-input and stop events.
C22_OneWorkerAtATime == LiveWorkers <= 1

\* C23: every run that has been started reaches finish_validation, which
\* leaves running False and the start button enabled, whether stop_validation
\* is called or not and wherever it is called, when the worker thread is
\* scheduled and every extraction and every request ends.
C23_RunReachesFinish ==
    (wpc # "none") ~> (wpc = "finished" /\ ~running /\ start_btn = "normal")

\* C23, its case: a run on files that was stopped while probes were in flight
\* has reached finish_validation.
C23_Witness ==
    /\ wpc = "finished"
    /\ stats.files > 0
    /\ stopped_at.pc = "gather"
    /\ stopped_at.in_flight
    /\ ~running
    /\ start_btn = "normal"

====
